---- MODULE Spec2Model ----
(***************************************************************************)
(* A model of the conda-to-pip converter (conda2pip.py), of the input     *)
(* validators of syncopy/utils/parsers.py and of the test helpers          *)
(* generate_artificial_data and figs_equal of syncopy/tests/misc.py.       *)
(*                                                                         *)
(* Text is modelled as a sequence of symbols.  A symbol is one character   *)
(* or an indivisible run of characters ("numpy", "python", "-", ...); the  *)
(* string methods used by the code (startswith, replace, in, split, join)  *)
(* are computed on these sequences.                                        *)
(***************************************************************************)
EXTENDS Integers, Sequences, FiniteSets, TLC

VARIABLES
    yml,      \* conda2pip: the lines of the "dependencies" section of ymlFile
    files,    \* conda2pip: content of the two output files in the cwd
    now,      \* conda2pip: the wall clock read by datetime.datetime.now()
    ret,      \* conda2pip: outcome of the most recent call
    seqIn,    \* _process_comments: the lines of the sequence it is given
    seqOut,   \* _process_comments: outcome of the call
    fs,       \* io_parser: the file system, absolute path -> kind of object
    ioArgs,   \* io_parser: the arguments of the call
    ioRet,    \* io_parser: outcome of the call
    scArgs,   \* scalar_parser: the arguments of the call
    scRet,    \* scalar_parser: outcome of the call
    arArgs,   \* array_parser: the arguments of the call
    arRet,    \* array_parser: outcome of the call
    dpArgs,   \* data_parser: the arguments of the call
    dpRet,    \* data_parser: outcome of the call
    jsArgs,   \* json_parser: the arguments of the call
    jsRet,    \* json_parser: outcome of the call
    gdArgs,   \* get_defaults: the argument of the call
    gdRet,    \* get_defaults: outcome of the call
    gen,      \* generate_artificial_data: arguments, position and locals
    fig,      \* figs_equal: arguments, position and outcome
    handles   \* the temporary files and HDF5 files that are open

condaVars == <<yml, files, now, ret>>
commentVars == <<seqIn, seqOut>>
ioVars == <<fs, ioArgs, ioRet>>
scalarVars == <<scArgs, scRet>>
arrayVars == <<arArgs, arRet>>
dataVars == <<dpArgs, dpRet>>
jsonVars == <<jsArgs, jsRet>>
defaultsVars == <<gdArgs, gdRet>>
testVars == <<gen, fig, handles>>
vars == <<yml, files, now, ret, seqIn, seqOut, fs, ioArgs, ioRet, scArgs, scRet,
          arArgs, arRet, dpArgs, dpRet, jsArgs, jsRet, gdArgs, gdRet, gen, fig, handles>>

(***************************************************************************)
(* Bounds of the model                                                     *)
(***************************************************************************)
MaxLines == 3     \* lines of a "dependencies" section
MaxPipLines == 2  \* lines of the nested "pip" section
MaxClock == 1     \* readings of the wall clock
MaxSeqLines == 5  \* lines of a sequence given to _process_comments alone
MaxPathLen == 4   \* characters of the fs_loc given to io_parser
MaxHalves == 3    \* finite numbers range over -MaxHalves/2 .. MaxHalves/2 in steps of 1/2
MaxArr == 2       \* elements of an array given to array_parser

(***************************************************************************)
(* Python str / list primitives                                            *)
(***************************************************************************)
\* s.startswith(p)
StartsWith(s, p) == Len(s) >= Len(p) /\ SubSeq(s, 1, Len(p)) = p

\* p in s (substring test)
Contains(s, p) ==
    \E i \in 1..(Len(s) + 1) :
        i + Len(p) - 1 <= Len(s) /\ SubSeq(s, i, i + Len(p) - 1) = p

\* s.replace(old, new): every non-overlapping occurrence, left to right
RECURSIVE Replace(_, _, _)
Replace(s, old, new) ==
    IF s = <<>> THEN <<>>
    ELSE IF StartsWith(s, old)
         THEN new \o Replace(SubSeq(s, Len(old) + 1, Len(s)), old, new)
         ELSE <<Head(s)>> \o Replace(Tail(s), old, new)

\* sep.join(list)
RECURSIVE Join(_, _)
Join(sep, list) ==
    IF list = <<>> THEN <<>>
    ELSE IF Len(list) = 1 THEN Head(list)
    ELSE Head(list) \o sep \o Join(sep, Tail(list))

\* list.pop(i) leaves this list (i is a 0-based index)
PopAt(list, i) == SubSeq(list, 1, i) \o SubSeq(list, i + 2, Len(list))

\* the value None of a list index
NoIndex == -1

\* list[:c] and list[c:] for c >= 0; list[:None] is the whole list
SliceTo(list, c) ==
    IF c = NoIndex THEN list
    ELSE SubSeq(list, 1, IF c < Len(list) THEN c ELSE Len(list))
SliceFrom(list, c) == SubSeq(list, c + 1, Len(list))

\* list.index(True) of a list of booleans computed by test(_), 0-based
FirstIndex(list, test(_)) ==
    IF \E i \in 1..Len(list) : test(list[i])
    THEN (CHOOSE i \in 1..Len(list) :
              test(list[i]) /\ \A j \in 1..(i - 1) : ~test(list[j])) - 1
    ELSE NoIndex

(***************************************************************************)
(* conda2pip.py: module constants                                          *)
(***************************************************************************)
commentKeys == <<<<"test">>, <<"optional">>, <<"development">>>>

\* pkgConvert has the single entry "python-graphviz" : "graphviz"
condaPkg == <<"python", "-", "graphviz">>
pipPkg == <<"graphviz">>

\* str.lower() on the symbols used in comments
LowerSym(c) ==
    CASE c = "TEST" -> "test"
      [] c = "Optional" -> "optional"
      [] OTHER -> c
Lower(s) == [i \in 1..Len(s) |-> LowerSym(s[i])]

(***************************************************************************)
(* The YAML text and what ruamel.yaml's round-trip loader makes of it.     *)
(* A line is a package entry, a comment or the nested "- pip:" section     *)
(* (one line for the key plus its own lines).                              *)
(***************************************************************************)
Pkg(s) == [t |-> "pkg", s |-> s, sub |-> <<>>]
Cmt(s) == [t |-> "cmt", s |-> s, sub |-> <<>>]
Pip(sub) == [t |-> "pip", s |-> <<"pip">>, sub |-> sub]

IsItem(l) == l.t # "cmt"

RECURSIVE Height(_)
Height(l) ==
    IF l.t = "pip"
    THEN 1 + (IF l.sub = <<>> THEN 0
              ELSE Height(Head(l.sub)) + Height(Pip(Tail(l.sub))) - 1)
    ELSE 1

\* 0-based line number of lines[k], counted from the first line of the sequence
RECURSIVE LineNo(_, _)
LineNo(lines, k) == IF k = 1 THEN 0 ELSE LineNo(lines, k - 1) + Height(lines[k - 1])

\* positions (1-based) in lines of the sequence items, in order
ItemPos(lines) ==
    LET P == {k \in 1..Len(lines) : IsItem(lines[k])}
        RECURSIVE Sorted(_)
        Sorted(S) == IF S = {} THEN <<>>
                     ELSE LET m == CHOOSE x \in S : \A y \in S : x <= y
                          IN <<m>> \o Sorted(S \ {m})
    IN Sorted(P)

\* A comment token: its text and the line on which its end mark stands (a
\* comment token ends after its line break, on the following line).
Token(lines, k) == [value |-> lines[k].s, end_line |-> LineNo(lines, k) + 1]

\* The CommentedSeq: data (the items), lc (line of every item), and ca, for
\* every item the comment tokens [post, pre] the loader attached to it with
\* None left out: a comment line is attached to the item it follows, and a
\* comment line ahead of the first item is attached to the first item.
Load(lines) ==
    LET pos == ItemPos(lines)
        n == Len(pos)
        post(i) == IF pos[i] < Len(lines) /\ ~IsItem(lines[pos[i] + 1])
                   THEN <<Token(lines, pos[i] + 1)>> ELSE <<>>
        pre(i) == IF i = 1 /\ pos[1] > 1 THEN <<Token(lines, 1)>> ELSE <<>>
    IN [data |-> [i \in 1..n |-> lines[pos[i]]],
        lc |-> [i \in 1..n |-> LineNo(lines, pos[i])],
        ca |-> [i \in 1..n |-> post(i) \o pre(i)]]

\* CommentedSeq.pop(idx): the item goes, with the comments attached to it, and
\* the comments of the later items move down with them
SeqPop(seq, idx) ==
    [data |-> PopAt(seq.data, idx), lc |-> PopAt(seq.lc, idx), ca |-> PopAt(seq.ca, idx)]

(***************************************************************************)
(* _process_comments                                                       *)
(***************************************************************************)
\* any([keyword in token.value.lower() for keyword in commentKeys])
HasKeyword(token) ==
    \E j \in 1..Len(commentKeys) : Contains(Lower(token.value), commentKeys[j])

\* the pkgConvert loop: the first entry that starts with the conda name has
\* every occurrence of the conda name replaced by the pip name
ConvertPkgs(data) ==
    LET idx == FirstIndex(data, LAMBDA l : StartsWith(l.s, condaPkg))
    IN IF idx = NoIndex THEN data
       ELSE [data EXCEPT ![idx + 1].s = Replace(@, condaPkg, pipPkg)]

\* the inner loop over the tokens of one item: the cutoff of the first token
\* that holds a keyword (then break), or the cutoff so far
RECURSIVE TokenLoop(_, _, _, _, _)
TokenLoop(tokens, t, lineno, line0, cutoff) ==
    IF t > Len(tokens) THEN cutoff
    ELSE IF HasKeyword(tokens[t])
         THEN IF lineno = 0
              THEN (LET d == tokens[t].end_line - line0 - 1
                    IN IF d > 0 THEN d ELSE 0)
              ELSE lineno + 1
         ELSE TokenLoop(tokens, t + 1, lineno, line0, cutoff)

\* the outer loop over ymlSeq.ca.items: it runs to the last item
RECURSIVE CutoffLoop(_, _, _)
CutoffLoop(seq, lineno, cutoff) ==
    IF lineno >= Len(seq.data) THEN cutoff
    ELSE CutoffLoop(seq, lineno + 1,
                    TokenLoop(seq.ca[lineno + 1], 1, lineno, seq.lc[1], cutoff))

Cutoff(seq) == CutoffLoop(seq, 0, NoIndex)

\* The call raises AttributeError when an entry is no string (the nested pip
\* map has no startswith); otherwise it returns needed and optional.
ProcessComments(seq) ==
    IF \E i \in 1..Len(seq.data) : seq.data[i].t # "pkg"
    THEN [raised |-> TRUE, needed |-> <<>>, optional |-> <<>>]
    ELSE LET conv == ConvertPkgs(seq.data)
             names == [i \in 1..Len(conv) |-> conv[i].s]
             cutoff == Cutoff(seq)
         IN [raised |-> FALSE,
             needed |-> SliceTo(names, cutoff),
             optional |-> IF cutoff # NoIndex THEN SliceFrom(names, cutoff) ELSE <<>>]

(***************************************************************************)
(* conda2pip                                                               *)
(***************************************************************************)
\* the loop over deps: the index of the last entry that is no string
PipIndex(deps) ==
    IF \E i \in 1..Len(deps.data) : deps.data[i].t = "pip"
    THEN (CHOOSE i \in 1..Len(deps.data) :
              deps.data[i].t = "pip"
              /\ \A j \in (i + 1)..Len(deps.data) : deps.data[j].t # "pip") - 1
    ELSE NoIndex

\* required.pop(pyReq.index(True)) if any(pyReq)
DropPython(required) ==
    LET idx == FirstIndex(required, LAMBDA s : StartsWith(s, <<"python">>))
    IN IF idx = NoIndex THEN required ELSE PopAt(required, idx)

\* the lists before the Python entry is removed, or the exception
SplitDeps(lines) ==
    LET deps == Load(lines)
        pipIndex == PipIndex(deps)
        \* `if pipIndex:` is false for None and for index 0
        taken == pipIndex # NoIndex /\ pipIndex # 0
        pipRes == IF taken THEN ProcessComments(Load(deps.data[pipIndex + 1].sub))
                  ELSE [raised |-> FALSE, needed |-> <<>>, optional |-> <<>>]
        rest == IF taken THEN SeqPop(deps, pipIndex) ELSE deps
        condaRes == ProcessComments(rest)
    IN [raised |-> pipRes.raised \/ condaRes.raised,
        required |-> pipRes.needed \o condaRes.needed,
        testing |-> pipRes.optional \o condaRes.optional]

Lists(lines) ==
    LET r == SplitDeps(lines)
    IN [raised |-> r.raised, required |-> DropPython(r.required), testing |-> r.testing]

\* the header written on top of both files
Msg(clock) ==
    <<"# This file was auto-generated by conda2pip.py on ", clock, ". \n",
      "# Do not edit, all of your changes will be overwritten. \n">>

Absent == <<"<no such file>">>

\* mode "a" instead of mode "w": what is written follows the earlier content
AppendFile(old, clock, list) ==
    (IF old = Absent THEN <<>> ELSE old) \o Msg(clock) \o Join(<<"\n">>, list)

\* with open(name, "w") as f: f.write(msg); f.write("\n".join(list))
WriteFile(old, clock, list) == Msg(clock) \o Join(<<"\n">>, list)

Conda2pip ==
    LET r == Lists(yml)
    IN /\ ret' = [status |-> IF r.raised THEN "raised" ELSE "returned",
                  required |-> r.required, testing |-> r.testing, at |-> now]
       /\ files' = IF r.raised THEN files
                   ELSE [req |-> WriteFile(files.req, now, r.required),
                         test |-> IF Len(r.testing) > 0
                                  THEN WriteFile(files.test, now, r.testing)
                                  ELSE files.test]
       /\ UNCHANGED <<yml, now, commentVars, ioVars, scalarVars, arrayVars,
                 dataVars, jsonVars, defaultsVars, testVars>>

\* time passes between two calls
Tick == now < MaxClock /\ now' = now + 1 /\ UNCHANGED <<yml, files, ret, commentVars, ioVars, scalarVars, arrayVars,
                 dataVars, jsonVars, defaultsVars, testVars>>

(***************************************************************************)
(* Inputs of conda2pip                                                     *)
(***************************************************************************)
Numpy == <<"numpy">>
PythonPin == <<"python", "=3.8">>
Dateutil == <<"python", "-", "dateutil">>
Graphviz == <<"python", "-", "graphviz">>
Sphinx == <<"sphinx">>

CmtRuntime == <<"# ", "runtime">>
CmtTesting == <<"# ", "TEST", "ing">>
CmtOptional == <<"# ", "Optional">>

SeqsUpTo(S, n) == UNION {[1..k -> S] : k \in 0..n}

\* no two comment lines in a row, and at least one item
Plain(lines) ==
    /\ \E k \in 1..Len(lines) : IsItem(lines[k])
    /\ \A k \in 1..(Len(lines) - 1) : IsItem(lines[k]) \/ IsItem(lines[k + 1])

PipLines == {Pkg(Sphinx), Cmt(CmtOptional)}
PipSections == {Pip(sub) : sub \in {s \in SeqsUpTo(PipLines, MaxPipLines) : Plain(s)}}

CondaLines ==
    {Pkg(Numpy), Pkg(PythonPin), Pkg(Dateutil), Pkg(Graphviz),
     Cmt(CmtRuntime), Cmt(CmtTesting)}

\* the package entries of a section, those of the nested pip section included
RECURSIVE Entries(_)
Entries(lines) ==
    IF lines = <<>> THEN <<>>
    ELSE (CASE Head(lines).t = "pkg" -> <<Head(lines).s>>
            [] Head(lines).t = "pip" -> Entries(Head(lines).sub)
            [] OTHER -> <<>>) \o Entries(Tail(lines))

NoDuplicates(list) == \A i, j \in 1..Len(list) : list[i] = list[j] => i = j

\* a dependencies section: no package is listed twice, there is at most one
\* pip section, and no comment follows it directly (such a comment would
\* belong to the nested sequence)
YmlFiles ==
    {s \in SeqsUpTo(CondaLines \cup PipSections, MaxLines) :
        /\ Plain(s)
        /\ NoDuplicates(Entries(s))
        /\ Cardinality({k \in 1..Len(s) : s[k].t = "pip"}) <= 1
        /\ \A k \in 1..(Len(s) - 1) : s[k].t = "pip" => IsItem(s[k + 1])}

OldFiles == {Absent, <<"edited by hand">>}

NoCall == [status |-> "none", required |-> <<>>, testing |-> <<>>, at |-> 0]
NoSeqCall == [status |-> "none", needed |-> <<>>, optional |-> <<>>]

IdleConda ==
    yml = <<>> /\ files = [req |-> Absent, test |-> Absent] /\ now = 0 /\ ret = NoCall
IdleComments == seqIn = <<>> /\ seqOut = NoSeqCall
NoIoArgs == [loc |-> [str |-> TRUE, s |-> <<>>], isfile |-> TRUE,
             ext |-> [list |-> FALSE, items |-> <<<<>>>>], exists |-> TRUE]
NoIoCall == [status |-> "none", why |-> "", value |-> <<>>]
IdleIo == fs = <<>> /\ ioArgs = NoIoArgs /\ ioRet = NoIoCall
NoScalarCall == [status |-> "none", why |-> ""]
IdleScalar == scArgs = <<>> /\ scRet = NoScalarCall
NoArrayCall == [status |-> "none", why |-> ""]
IdleArray == arArgs = <<>> /\ arRet = NoArrayCall
NoDataCall == [status |-> "none", why |-> "", value |-> ""]
IdleData == dpArgs = <<>> /\ dpRet = NoDataCall
NoJsonCall == [status |-> "none", why |-> "", value |-> ""]
IdleJson == jsArgs = <<>> /\ jsRet = NoJsonCall
NoDefaultsCall == [status |-> "none", why |-> "", value |-> ""]
IdleDefaults == gdArgs = <<>> /\ gdRet = NoDefaultsCall
IdleTests == gen = <<>> /\ fig = <<>> /\ handles = {}
IdleRest == IdleData /\ IdleJson /\ IdleDefaults /\ IdleTests

InitConda ==
    /\ yml \in YmlFiles
    /\ files \in [req : OldFiles, test : OldFiles]
    /\ now = 0
    /\ ret = NoCall
    /\ IdleComments /\ IdleIo /\ IdleScalar /\ IdleArray /\ IdleRest

NextConda == Conda2pip \/ Tick

SpecConda == InitConda /\ [][NextConda]_vars

(***************************************************************************)
(* _process_comments on its own                                            *)
(***************************************************************************)
SeqLines == {Pkg(Numpy), Pkg(Sphinx), Cmt(CmtRuntime), Cmt(CmtTesting), Cmt(CmtOptional)}

SeqInputs == {s \in SeqsUpTo(SeqLines, MaxSeqLines) : Plain(s)}

ProcessCommentsCall ==
    LET r == ProcessComments(Load(seqIn))
    IN /\ seqOut' = [status |-> IF r.raised THEN "raised" ELSE "returned",
                     needed |-> r.needed, optional |-> r.optional]
       /\ UNCHANGED <<seqIn, condaVars, ioVars, scalarVars, arrayVars,
                 dataVars, jsonVars, defaultsVars, testVars>>

InitComments == seqIn \in SeqInputs /\ seqOut = NoSeqCall /\ IdleConda /\ IdleIo /\ IdleScalar
                /\ IdleArray /\ IdleRest

NextComments == ProcessCommentsCall

SpecComments == InitComments /\ [][NextComments]_vars

(***************************************************************************)
(* io_parser (syncopy/utils/parsers.py).  A path is a sequence of          *)
(* characters.                                                             *)
(***************************************************************************)
\* os.getcwd() and the home directory of the user
Cwd == <<"/", "a">>
Home == <<"/", "b">>

\* s.find(c) + 1 from position i on, 0 when c is not there
RECURSIVE FindFrom(_, _, _)
FindFrom(s, c, i) ==
    IF i > Len(s) THEN 0 ELSE IF s[i] = c THEN i ELSE FindFrom(s, c, i + 1)

\* s.rfind(c) + 1, 0 when c is not in s
RECURSIVE RFind(_, _)
RFind(s, c) == IF s = <<>> THEN 0 ELSE IF s[Len(s)] = c THEN Len(s)
               ELSE RFind(SubSeq(s, 1, Len(s) - 1), c)

\* s.split(c) for a one-character separator
RECURSIVE SplitChar(_, _)
SplitChar(s, c) ==
    LET i == FindFrom(s, c, 1)
    IN IF i = 0 THEN <<s>>
       ELSE <<SubSeq(s, 1, i - 1)>> \o SplitChar(SubSeq(s, i + 1, Len(s)), c)

\* s.split(sep)[0] for a non-empty separator: what stands ahead of the first
\* occurrence of sep
RECURSIVE SplitHead(_, _)
SplitHead(s, sep) ==
    IF s = <<>> \/ StartsWith(s, sep) THEN <<>>
    ELSE <<Head(s)>> \o SplitHead(Tail(s), sep)

\* os.path.expanduser: "~" and "~/..." name the home directory; "~name" of an
\* unknown user is left alone
ExpandUser(p) ==
    IF p # <<>> /\ p[1] = "~" /\ (Len(p) = 1 \/ p[2] = "/")
    THEN (LET q == Home \o Tail(p) IN IF q = <<>> THEN <<"/">> ELSE q)
    ELSE p

\* the loop of posixpath.normpath over the components
RECURSIVE NormComps(_, _, _)
NormComps(comps, new, rooted) ==
    IF comps = <<>> THEN new
    ELSE LET c == Head(comps)
             up == <<".", ".">>
         IN IF c = <<>> \/ c = <<".">> THEN NormComps(Tail(comps), new, rooted)
            ELSE IF c # up \/ (~rooted /\ new = <<>>)
                    \/ (new # <<>> /\ new[Len(new)] = up)
                 THEN NormComps(Tail(comps), Append(new, c), rooted)
                 ELSE NormComps(Tail(comps),
                                IF new # <<>> THEN SubSeq(new, 1, Len(new) - 1) ELSE new,
                                rooted)

\* posixpath.normpath
NormPath(p) ==
    IF p = <<>> THEN <<".">>
    ELSE LET slashes == IF p[1] # "/" THEN 0
                        ELSE IF StartsWith(p, <<"/", "/">>) /\ ~StartsWith(p, <<"/", "/", "/">>)
                             THEN 2 ELSE 1
             body == Join(<<"/">>, NormComps(SplitChar(p, "/"), <<>>, slashes > 0))
             q == [i \in 1..slashes |-> "/"] \o body
         IN IF q = <<>> THEN <<".">> ELSE q

\* posixpath.join(Cwd, p)
JoinCwd(p) ==
    IF p # <<>> /\ p[1] = "/" THEN p
    ELSE IF Cwd[Len(Cwd)] = "/" THEN Cwd \o p ELSE Cwd \o <<"/">> \o p

\* os.path.abspath
AbsPath(p) == NormPath(JoinCwd(p))

\* os.path.basename
Basename(p) == SubSeq(p, RFind(p, "/") + 1, Len(p))

\* os.path.splitext(name)[1]: from the last dot on, unless only dots precede it
SplitExt(p) ==
    LET sepIndex == RFind(p, "/")
        dotIndex == RFind(p, ".")
    IN IF dotIndex > sepIndex
          /\ \E k \in (sepIndex + 1)..(dotIndex - 1) : p[k] # "."
       THEN SubSeq(p, dotIndex, Len(p))
       ELSE <<>>

\* os.path.exists / isdir / isfile
PathExists(f, p) == p \in DOMAIN f /\ f[p] # "absent"
IsDir(f, p) == p \in DOMAIN f /\ f[p] = "dir"
IsFile(f, p) == p \in DOMAIN f /\ f[p] = "file"

\* len(ext) and str(ext) of a str or of a list of str
ExtLen(ext) == IF ext.list THEN Len(ext.items) ELSE Len(ext.items[1])
Repr(x) == <<"'">> \o x \o <<"'">>
ExtStr(ext) ==
    IF ext.list
    THEN <<"[">> \o Join(<<",", " ">>, [i \in 1..Len(ext.items) |-> Repr(ext.items[i])])
         \o <<"]">>
    ELSE ext.items[1]

\* only the first of the two checks: the location of a file to read is there
MissingOnly(exists, present) == exists /\ ~present

\* lines 91-94: the object is missing although it has to exist, or is there
\* although it must not
ExistsConflict(exists, present) == (exists /\ ~present) \/ (~exists /\ present)

Raise(kind, why) == [status |-> kind, why |-> why, value |-> <<>>]
Return(value) == [status |-> "returned", why |-> "", value |-> value]

\* lines 112-126: the extension check raises
ExtError(ext, file_name) ==
    LET file_ext == Replace(SplitExt(file_name), <<".">>, <<>>)
        error == Len(file_ext) = 0
    IN ~Contains(ExtStr(ext), file_ext) \/ error

IoParser(a, f) ==
    IF ~a.isfile /\ ExtLen(a.ext) > 0 THEN Return(<<>>)
    ELSE IF ~a.loc.str THEN Raise("SPYTypeError", "str")
    ELSE LET fs_loc == AbsPath(ExpandUser(a.loc.s))
         IN IF ExistsConflict(a.exists, PathExists(f, fs_loc))
            THEN Raise("SPYIOError", "exists")
            ELSE IF ~a.isfile
            THEN (LET isdir == IsDir(f, fs_loc)
                  IN IF isdir /\ ~a.exists THEN Raise("SPYIOError", "isdir")
                     ELSE IF ~isdir /\ a.exists THEN Raise("SPYValueError", "isdir")
                     ELSE Return(<<fs_loc>>))
            ELSE (LET file_name == Basename(fs_loc)
                      isfile == IsFile(f, fs_loc)
                  IN IF ExtLen(a.ext) > 0 /\ ExtError(a.ext, file_name)
                     THEN Raise("SPYValueError", "ext")
                     ELSE IF isfile /\ ~a.exists THEN Raise("SPYIOError", "isfile")
                     ELSE IF ~isfile /\ a.exists THEN Raise("SPYValueError", "isfile")
                     ELSE IF file_name = <<>> THEN Raise("ValueError", "empty separator")
                     ELSE Return(<<SplitHead(fs_loc, file_name), file_name>>))

IoParserCall == ioRet' = IoParser(ioArgs, fs) /\ UNCHANGED <<fs, ioArgs, condaVars, commentVars, scalarVars, arrayVars,
                 dataVars, jsonVars, defaultsVars, testVars>>

\* Inputs
PathChars == {"/", "a", "b", "."}
PathInputs == SeqsUpTo(PathChars, MaxPathLen) \cup {<<"~">>, <<"~", "/", "a">>, <<"~", "a">>}
Locs == {[str |-> TRUE, s |-> p] : p \in PathInputs} \cup {[str |-> FALSE, s |-> <<>>]}
Exts == {[list |-> FALSE, items |-> <<<<>>>>],
         [list |-> FALSE, items |-> <<<<"a", "b">>>>],
         [list |-> TRUE, items |-> <<<<"a", "b">>>>],
         [list |-> TRUE, items |-> <<<<"a">>, <<"b", "a">>>>]}
IoInputs == [loc : Locs, isfile : BOOLEAN, ext : Exts, exists : BOOLEAN]

\* the directories above an absolute path
Ancestors(p) ==
    {IF k = 1 THEN <<"/">> ELSE SubSeq(p, 1, k - 1) :
        k \in {j \in 1..Len(p) : p[j] = "/" /\ j < Len(p)}}

\* the file systems looked at: the root, the working directory and the home
\* directory are directories; at the place the call names there is nothing, a
\* file, a directory or something else (a socket, a device)
BaseDirs == {<<"/">>, <<"/", "/">>, Cwd, Home}
FileSystems(target) ==
    IF target \in BaseDirs THEN {[p \in BaseDirs |-> "dir"]}
    ELSE {[p \in BaseDirs \cup Ancestors(target) \cup {target} |->
              IF p # target THEN (IF kind = "absent" /\ p \notin BaseDirs THEN "absent" ELSE "dir")
              ELSE kind] : kind \in {"absent", "file", "dir", "special"}}

InitIo ==
    /\ ioArgs \in IoInputs
    /\ fs \in FileSystems(AbsPath(ExpandUser(ioArgs.loc.s)))
    /\ ioRet = NoIoCall
    /\ IdleConda /\ IdleComments /\ IdleScalar /\ IdleArray /\ IdleRest

NextIo == IoParserCall

SpecIo == InitIo /\ [][NextIo]_vars

(***************************************************************************)
(* Numbers.  A float is finite, an infinity or NaN; a finite value is      *)
(* counted in halves (v stands for v/2), so that 3 and 3.0 are v = 6 and   *)
(* 0.5 is v = 1.  Comparisons are those of IEEE 754.                       *)
(***************************************************************************)
Fin(v) == [k |-> "fin", v |-> v]
PosInf == [k |-> "inf", v |-> 1]
NegInf == [k |-> "inf", v |-> -1]
NaN == [k |-> "nan", v |-> 0]

\* x < y
Lt(x, y) ==
    /\ x.k # "nan" /\ y.k # "nan"
    /\ CASE x.k = y.k -> x.v < y.v
         [] x.k = "inf" -> x.v < 0
         [] OTHER -> y.v > 0
\* x > y, x == y, x <= y
Gt(x, y) == Lt(y, x)
NumEq(x, y) == x.k # "nan" /\ y.k # "nan" /\ x = y
Le(x, y) == Lt(x, y) \/ NumEq(x, y)

\* np.isfinite, np.isinf, np.isnan of one float
IsFinite(x) == x.k = "fin"
IsInf(x) == x.k = "inf"
IsNaN(x) == x.k = "nan"

\* np.round of one float: to the nearest whole number, a tie to the even one
NpRound(x) ==
    IF x.k # "fin" \/ x.v % 2 = 0 THEN x
    ELSE LET m == (x.v - 1) \div 2
         IN IF m % 2 = 0 THEN Fin(2 * m) ELSE Fin(2 * m + 2)

\* A scalar: an int, a float, a complex (real and imaginary part) or
\* something that is no number (a str)
Scalar(t, re, im) == [t |-> t, re |-> re, im |-> im]
IsNumber(var) == var.t \in {"int", "float", "complex"}

\* np.round(var) != var, on both parts of a complex
NotRound(var) == ~(NumEq(NpRound(var.re), var.re) /\ NumEq(NpRound(var.im), var.im))

\* the condition inverted: np.round(var) == var
IsRound(var) == NumEq(NpRound(var.re), var.re) /\ NumEq(NpRound(var.im), var.im)

\* line 204: the value is not "int_like"
IntLikeError(var) == NotRound(var)

\* strict inequalities: np.any(val <= lims[0]) or np.any(val >= lims[1])
StrictBounds(val, lims) ==
    \/ \E i \in 1..Len(val) : Le(val[i], lims[1])
    \/ \E i \in 1..Len(val) : Le(lims[2], val[i])

\* line 219: np.any(val < lims[0]) or np.any(val > lims[1])
OutOfBounds(val, lims) ==
    \/ \E i \in 1..Len(val) : Lt(val[i], lims[1])
    \/ \E i \in 1..Len(val) : Gt(val[i], lims[2])

(***************************************************************************)
(* scalar_parser                                                           *)
(***************************************************************************)
\* ntype is None (<<>>), "int_like" or the name of a builtin type; lims is
\* None (<<>>) or <<lo, hi>>; builtins says what __builtins__ is in the
\* module, the builtins module or its dict (both occur, see the CPython note
\* on __builtins__)
ScalarParser(a) ==
    LET var == a.var
        typeError ==
            IF a.ntype = <<>> THEN ""
            ELSE IF a.ntype = <<"int_like">>
                 THEN IF IntLikeError(var) THEN "SPYValueError" ELSE ""
            ELSE IF a.builtins = "dict" THEN "AttributeError"
            ELSE IF <<var.t>> # a.ntype THEN "SPYTypeError" ELSE ""
        val == IF var.t = "complex" THEN <<var.re, var.im>> ELSE <<var.re>>
        limError ==
            a.lims # <<>> /\ (\/ OutOfBounds(val, a.lims)
                              \/ ~(IsFinite(var.re) /\ IsFinite(var.im)))
    IN IF ~IsNumber(var) THEN [status |-> "SPYTypeError", why |-> "scalar"]
       ELSE IF typeError # "" THEN [status |-> typeError, why |-> "ntype"]
       ELSE IF limError THEN [status |-> "SPYValueError", why |-> "lims"]
       ELSE [status |-> "returned", why |-> ""]

\* the caller's arguments after the call: no statement of lines 198-224
\* assigns to var, varname, ntype or lims, or writes through one of them
ScalarArgsAfter(a) == a

ScalarParserCall ==
    /\ scRet' = ScalarParser(scArgs)
    /\ scArgs' = ScalarArgsAfter(scArgs)
    /\ UNCHANGED <<condaVars, commentVars, ioVars, arrayVars, dataVars, jsonVars, defaultsVars,
                   testVars>>

\* Inputs
Halves == (0 - MaxHalves)..MaxHalves
Floats == {Fin(v) : v \in Halves} \cup {PosInf, NegInf, NaN}
Wholes == {Fin(v) : v \in {h \in Halves : h % 2 = 0}}
Scalars ==
    {Scalar("int", x, Fin(0)) : x \in Wholes}
    \cup {Scalar("float", x, Fin(0)) : x \in Floats}
    \cup {Scalar("complex", x, y) : x \in Floats, y \in Floats}
    \cup {Scalar("str", Fin(0), Fin(0))}
LimValues == Wholes \cup {PosInf, NegInf}
LimInputs == {<<>>} \cup {<<lo, hi>> : lo \in LimValues, hi \in LimValues}
NtypeInputs == {<<>>, <<"int_like">>, <<"int">>, <<"float">>}
ScalarInputs ==
    [var : Scalars, ntype : NtypeInputs, lims : LimInputs, builtins : {"dict", "module"}]

InitScalar ==
    /\ scArgs \in ScalarInputs
    /\ scRet = NoScalarCall
    /\ IdleConda /\ IdleComments /\ IdleIo /\ IdleArray /\ IdleRest

NextScalar == ScalarParserCall

SpecScalar == InitScalar /\ [][NextScalar]_vars

(***************************************************************************)
(* array_parser, for one-dimensional arrays.  An array has a dtype and its *)
(* elements, each with a real and an imaginary part (zero unless the dtype *)
(* is complex; the elements of a str array are not looked at).             *)
(***************************************************************************)
Elem(re, im) == [re |-> re, im |-> im]

\* np.isfinite / np.isinf / np.isnan of an element
ElemFinite(e) == IsFinite(e.re) /\ IsFinite(e.im)
ElemInf(e) == IsInf(e.re) \/ IsInf(e.im)
ElemNaN(e) == IsNaN(e.re) \/ IsNaN(e.im)

\* np.issubdtype(arr.dtype, np.number)
IsNumeric(dtype) == dtype \in {"int", "float", "complex"}

\* ndarray.min() / .max() of a non-empty sequence of finite floats
RECURSIVE SeqMin(_)
SeqMin(xs) == IF Len(xs) = 1 THEN xs[1]
              ELSE LET m == SeqMin(Tail(xs)) IN IF Lt(xs[1], m) THEN xs[1] ELSE m
RECURSIVE SeqMax(_)
SeqMax(xs) == IF Len(xs) = 1 THEN xs[1]
              ELSE LET m == SeqMax(Tail(xs)) IN IF Gt(xs[1], m) THEN xs[1] ELSE m

\* arr[np.isfinite(arr)]
FiniteOnly(elems) == SelectSeq(elems, ElemFinite)

\* lines 381-392, the bounds check: "" when it passes, else the exception.
\* min() and max() of an array without elements raise ValueError.
BoundsCheck(dtype, elems, lims) ==
    LET fi_arr == FiniteOnly(elems)
        parts == IF dtype = "complex"
                 THEN [i \in 1..Len(fi_arr) |-> fi_arr[i].re]
                      \o [i \in 1..Len(fi_arr) |-> fi_arr[i].im]
                 ELSE [i \in 1..Len(fi_arr) |-> fi_arr[i].re]
    IN IF fi_arr = <<>> THEN "ValueError"
       ELSE IF Lt(SeqMin(parts), lims[1]) \/ Gt(SeqMax(parts), lims[2])
            THEN "SPYValueError" ELSE ""

\* lines 344-356, the check of the data type: "" when it passes
TypeCheck(dtype, elems, ntype) ==
    IF ntype \in {<<"numeric">>, <<"int_like">>}
    THEN IF ~IsNumeric(dtype) THEN "SPYValueError"
         ELSE IF ntype = <<"int_like">>
                 /\ \E i \in 1..Len(elems) : NotRound(Scalar(dtype, elems[i].re, elems[i].im))
              THEN "SPYValueError" ELSE ""
    ELSE IF <<dtype>> # ntype THEN "SPYValueError" ELSE ""

\* lines 359-378: hasinf and hasnan; np.isinf and np.isnan raise TypeError on
\* an array of str
ProbeCheck(dtype, elems, flag, Probe(_)) ==
    IF flag = <<>> THEN ""
    ELSE IF ~IsNumeric(dtype) THEN "TypeError"
    ELSE LET found == \E i \in 1..Len(elems) : Probe(elems[i])
         IN IF (~flag[1] /\ found) \/ (flag[1] /\ ~found) THEN "SPYValueError" ELSE ""

\* lines 395-419: dims is None (<<>>), a number of dimensions <<"int", n>> or a
\* shape <<"tuple", shape>> with -1 for an unknown (None) extent.  The array
\* is one-dimensional: arr.shape is (n,), arr.squeeze().shape is () for n = 1.
DimsCheck(dtype, elems, dims) ==
    LET ischar == IF dtype = "str" THEN 1 ELSE 0
        n == Len(elems)
        squeezed == IF n = 1 THEN <<>> ELSE <<n>>
        \* max((ischar,), arr.squeeze().shape), tuples compared as Python does
        larger == IF squeezed = <<>> \/ squeezed[1] < ischar THEN <<ischar>> ELSE squeezed
    IN IF dims = <<>> THEN ""
       ELSE IF dims[1] = "tuple"
       THEN (LET shape == dims[2]
                 ashape == IF Len(shape) > 1 THEN <<n>> ELSE larger
             IN IF Len(shape) # Len(ashape) THEN "SPYValueError"
                ELSE IF \E dk \in 1..Len(shape) : shape[dk] # -1 /\ ashape[dk] # shape[dk]
                     THEN "SPYValueError" ELSE "")
       ELSE IF (IF ischar > 1 THEN ischar ELSE 1) # dims[2] THEN "SPYValueError" ELSE ""

ArrayParser(a) ==
    LET ntype == IF a.lims # <<>> /\ a.ntype = <<>> THEN <<"numeric">> ELSE a.ntype
        dtype == a.var.dtype
        elems == a.var.elems
        type == IF ntype = <<>> THEN "" ELSE TypeCheck(dtype, elems, ntype)
        inf == ProbeCheck(dtype, elems, a.hasinf, ElemInf)
        nan == ProbeCheck(dtype, elems, a.hasnan, ElemNaN)
        bounds == IF a.lims = <<>> THEN ""
                  ELSE IF ~IsNumeric(dtype) THEN "TypeError"
                  ELSE BoundsCheck(dtype, elems, a.lims)
        shape == DimsCheck(dtype, elems, a.dims)
    IN IF ~a.var.arraylike THEN [status |-> "SPYTypeError", why |-> "array_like"]
       ELSE IF type # "" THEN [status |-> type, why |-> "ntype"]
       ELSE IF inf # "" THEN [status |-> inf, why |-> "hasinf"]
       ELSE IF nan # "" THEN [status |-> nan, why |-> "hasnan"]
       ELSE IF bounds # "" THEN [status |-> bounds, why |-> "lims"]
       ELSE IF shape # "" THEN [status |-> shape, why |-> "dims"]
       ELSE [status |-> "returned", why |-> ""]

\* as if the assignment ntype = "numeric" of line 341 reached the caller
ArrayArgsRebound(a) ==
    IF a.lims # <<>> /\ a.ntype = <<>> THEN [a EXCEPT !.ntype = <<"numeric">>] ELSE a

\* the caller's arguments after the call: arr = np.array(var) (line 336) is
\* a copy that is only read, and ntype = "numeric" (line 341) binds the
\* local name anew
ArrayArgsAfter(a) == a

ArrayParserCall ==
    /\ arRet' = ArrayParser(arArgs)
    /\ arArgs' = ArrayArgsAfter(arArgs)
    /\ UNCHANGED <<condaVars, commentVars, ioVars, scalarVars, dataVars, jsonVars, defaultsVars,
                   testVars>>

\* Inputs
Array(dtype, elems) == [arraylike |-> TRUE, dtype |-> dtype, elems |-> elems]
IntElems == {Elem(Fin(v), Fin(0)) : v \in {-2, 0, 2}}
FloatElems == {Elem(x, Fin(0)) : x \in {Fin(-2), Fin(1), Fin(2), PosInf, NaN}}
ComplexElems == {Elem(x, y) : x \in {Fin(0), Fin(2)}, y \in {Fin(-2), Fin(2), PosInf}}
Arrays ==
    {Array("int", e) : e \in SeqsUpTo(IntElems, MaxArr)}
    \cup {Array("float", e) : e \in SeqsUpTo(FloatElems, MaxArr)}
    \cup {Array("complex", e) : e \in SeqsUpTo(ComplexElems, MaxArr) \ {<<>>}}
    \cup {Array("str", e) : e \in SeqsUpTo({Elem(Fin(0), Fin(0))}, MaxArr) \ {<<>>}}
    \cup {[arraylike |-> FALSE, dtype |-> "str", elems |-> <<>>]}
Flags == {<<>>, <<TRUE>>, <<FALSE>>}
ArrayInputs ==
    [var : Arrays,
     ntype : {<<>>, <<"int_like">>, <<"float">>},
     hasinf : Flags, hasnan : Flags,
     lims : {<<>>, <<Fin(0), Fin(2)>>, <<NegInf, PosInf>>},
     dims : {<<>>, <<"int", 1>>, <<"tuple", <<1>>>>, <<"tuple", <<2, -1>>>>}]

InitArray ==
    /\ arArgs \in ArrayInputs
    /\ arRet = NoArrayCall
    /\ IdleConda /\ IdleComments /\ IdleIo /\ IdleScalar /\ IdleRest

NextArray == ArrayParserCall

SpecArray == InitArray /\ [][NextArray]_vars

(***************************************************************************)
(* data_parser (parsers.py, lines 424-476)                                 *)
(*                                                                         *)
(* An object is known by the names of the classes in its __mro__, by       *)
(* whether it has the attributes of a Syncopy data object, and by the      *)
(* values of the attributes data_parser reads: data, mode and dimord.      *)
(***************************************************************************)
BaseData == <<"Base", "Data">>

\* line 433: any(["BaseData" in str(base) for base in data.__class__.__mro__])
DerivedFromBase(obj) == \E k \in 1..Len(obj.mro) : Contains(obj.mro[k], BaseData)

\* set(dimord).issubset(data.dimord), line 468
IsSubset(dimord, have) ==
    \A k \in 1..Len(dimord) : \E j \in 1..Len(have) : have[j] = dimord[k]

DataRaise(kind, why) == [status |-> kind, why |-> why, value |-> ""]
ReturnNone == [status |-> "returned", why |-> "", value |-> "None"]

\* the first read of an attribute the object does not have ends the call
DataParser(a) ==
    LET data == a.data
        name == data.mro[1]
        reads == a.empty # <<>> \/ a.writable # <<>> \/ a.dimord # <<>>
    IN IF ~DerivedFromBase(data) THEN DataRaise("SPYTypeError", "data")
       ELSE IF a.dataclass # <<>> /\ ~Contains(a.dataclass[1], name)
           THEN DataRaise("SPYTypeError", "dataclass")
       ELSE IF reads /\ ~data.attrs THEN DataRaise("AttributeError", "data")
       ELSE IF a.empty # <<>> /\ a.empty[1] /\ data.data # "None"
           THEN DataRaise("SPYValueError", "empty")
       ELSE IF a.empty # <<>> /\ ~a.empty[1] /\ data.data = "None"
           THEN DataRaise("SPYValueError", "empty")
       ELSE IF a.writable # <<>> /\ a.writable[1] /\ data.mode = "r"
           THEN DataRaise("SPYValueError", "writable")
       ELSE IF a.writable # <<>> /\ ~a.writable[1] /\ data.mode # "r"
           THEN DataRaise("SPYValueError", "writable")
       ELSE IF a.dimord # <<>> /\ Len(data.dimord) > 0 /\ ~IsSubset(a.dimord[1], data.dimord)
           THEN DataRaise("SPYValueError", "dimord")
       ELSE ReturnNone

\* the caller's arguments after the call: lines 433-474 read data.__class__,
\* data.data, data.mode and data.dimord and assign to none of them
DataArgsAfter(a) == a

DataParserCall ==
    /\ dpArgs # <<>>
    /\ dpRet' = DataParser(dpArgs)
    /\ dpArgs' = DataArgsAfter(dpArgs)
    /\ UNCHANGED <<condaVars, commentVars, ioVars, scalarVars, arrayVars, jsonVars,
                   defaultsVars, testVars>>

\* Inputs
AnalogDataMro == <<<<"Analog", "Data">>, <<"Continuous", "Data">>, BaseData, <<"object">>>>
SpectralDataMro == <<<<"Spectral", "Data">>, <<"Continuous", "Data">>, BaseData, <<"object">>>>
\* a class that only carries the name, and a class that has nothing to do with it
LookalikeMro == <<<<"Fake", "Base", "Data">>, <<"object">>>>
DictMro == <<<<"dict">>, <<"object">>>>
NoAttrs == [data |-> "None", mode |-> "", dimord |-> <<>>]
DataObjects ==
    {[mro |-> m, attrs |-> TRUE, data |-> d, mode |-> md, dimord |-> IF d = "None" THEN <<>> ELSE o] :
        m \in {AnalogDataMro, SpectralDataMro}, d \in {"None", "array"}, md \in {"r", "w"},
        o \in {<<"time", "channel">>}}
    \cup {[mro |-> m, attrs |-> FALSE] @@ NoAttrs : m \in {LookalikeMro, DictMro}}
DataInputs ==
    [data : DataObjects,
     dataclass : {<<>>, <<<<"Analog", "Data">>>>},
     writable : Flags, empty : Flags,
     dimord : {<<>>, <<<<"time">>>>, <<<<"freq", "channel">>>>}]

InitData ==
    /\ dpArgs \in DataInputs
    /\ dpRet = NoDataCall
    /\ IdleConda /\ IdleComments /\ IdleIo /\ IdleScalar /\ IdleArray
    /\ IdleJson /\ IdleDefaults /\ IdleTests

(***************************************************************************)
(* json_parser (parsers.py, lines 479-492)                                 *)
(*                                                                         *)
(* A dictionary is a function from its keys; json_dct maps a key to the    *)
(* type of its value, wanted_dct maps a key to the type it asks for.       *)
(***************************************************************************)
\* isinstance(value, tp): bool is a subclass of int
IsInstance(type, tp) == type = tp \/ (type = "bool" /\ tp = "int")

JsonParser(a) ==
    IF ~(DOMAIN a.wanted_dct \subseteq DOMAIN a.json_dct)
    THEN DataRaise("SPYValueError", "fields")
    ELSE IF \E key \in DOMAIN a.wanted_dct : ~IsInstance(a.json_dct[key], a.wanted_dct[key])
    THEN DataRaise("SPYTypeError", "type")
    ELSE ReturnNone

\* the caller's arguments after the call: lines 484-491 read the keys and
\* the items of the two dictionaries and store nothing in them
JsonArgsAfter(a) == a

JsonParserCall ==
    /\ jsArgs # <<>>
    /\ jsRet' = JsonParser(jsArgs)
    /\ jsArgs' = JsonArgsAfter(jsArgs)
    /\ UNCHANGED <<condaVars, commentVars, ioVars, scalarVars, arrayVars, dataVars,
                   defaultsVars, testVars>>

\* Inputs
JsonKeys == {"type", "dimord"}
Dicts(types) == UNION {[keys -> types] : keys \in SUBSET JsonKeys}
JsonInputs == [json_dct : Dicts({"bool", "int", "str"}), wanted_dct : Dicts({"int", "str"})]

InitJson ==
    /\ jsArgs \in JsonInputs
    /\ jsRet = NoJsonCall
    /\ IdleConda /\ IdleComments /\ IdleIo /\ IdleScalar /\ IdleArray
    /\ IdleData /\ IdleDefaults /\ IdleTests

(***************************************************************************)
(* get_defaults (parsers.py, lines 495-519)                                *)
(***************************************************************************)
Callable(obj) == obj \in {"function", "class"}

GetDefaults(obj) ==
    IF ~Callable(obj) THEN DataRaise("SPYTypeError", "obj")
    ELSE [status |-> "returned", why |-> "", value |-> "argdict"]

GetDefaultsCall ==
    /\ gdArgs # <<>>
    /\ gdRet' = GetDefaults(gdArgs[1])
    /\ UNCHANGED <<gdArgs, condaVars, commentVars, ioVars, scalarVars, arrayVars, dataVars,
                   jsonVars, testVars>>

InitDefaults ==
    /\ gdArgs \in {<<obj>> : obj \in {"function", "class", "int", "str"}}
    /\ gdRet = NoDefaultsCall
    /\ IdleConda /\ IdleComments /\ IdleIo /\ IdleScalar /\ IdleArray
    /\ IdleData /\ IdleJson /\ IdleTests

(***************************************************************************)
(* The validators together: one call of one validator                      *)
(***************************************************************************)
InitValidators ==
    InitIo \/ InitScalar \/ InitArray \/ InitData \/ InitJson \/ InitDefaults

NextValidators ==
    \/ fs # <<>> /\ IoParserCall
    \/ scArgs # <<>> /\ ScalarParserCall
    \/ arArgs # <<>> /\ ArrayParserCall
    \/ DataParserCall
    \/ JsonParserCall
    \/ GetDefaultsCall

SpecValidators == InitValidators /\ [][NextValidators]_vars

(***************************************************************************)
(* generate_artificial_data and figs_equal (tests/misc.py)                 *)
(*                                                                         *)
(* gen holds the arguments nTrials, equidistant, overlapping and inmemory, *)
(* the position pc in the function, the loop counter iTrial, and the       *)
(* locals offsets and trialdefinition; row k of trialdefinition is the     *)
(* row of trial k - 1.  handles is the set of files that are open: "h5w"   *)
(* and "h5r" are the HDF5 files of lines 108 and 118, "img1" and "img2"    *)
(* the temporary files of lines 194 and 195.                               *)
(***************************************************************************)
MaxTrials == 3      \* nTrials ranges over 1..MaxTrials
OffsetChoices == 3  \* values the random offsets are drawn from, besides the largest

tSize == 3000       \* t.size, the samples of one trial
equiOffsetOn == 100 \* equiOffset of overlapping equidistant trials
trigger == 1000     \* third entry of every row

\* rng.integers(low=int(0.1*t.size), high=int(0.2*t.size)): low <= x < high
OffsetLow == tSize \div 10
OffsetHigh == tSize \div 5
RandomOffsets ==
    {OffsetLow + ((OffsetHigh - OffsetLow) * k) \div OffsetChoices : k \in 0..(OffsetChoices - 1)}
    \cup {OffsetHigh - 1}

\* a with-block is entered and left
Acquire(open, h) == open \cup {h}
\* as if leaving the block did not close the file
StayOpen(open, h) == open
ExitScope(open, h) == open \ {h}

\* shift = (-1)**(not overlapping)
ShiftInverted(overlapping) == IF overlapping THEN -1 ELSE 1
Shift(overlapping) == IF overlapping THEN 1 ELSE -1

\* lines 135-137
TrialRow(iTrial, offset, shift) ==
    <<iTrial * tSize - shift * offset, (iTrial + 1) * tSize + shift * offset, trigger>>

\* trialdefinition[k, :2] += d
ShiftRow(trl, k, d) == [trl EXCEPT ![k] = <<@[1] + d, @[2] + d, @[3]>>]

\* lines 138-143, one assignment after the other
Adjust(trl, equidistant, equiOffset) ==
    LET last == Len(trl)
    IN IF equidistant
       THEN ShiftRow(ShiftRow(trl, 1, equiOffset), last, -equiOffset)
       ELSE LET first == [trl EXCEPT ![1] = <<0, @[2], @[3]>>]
            IN [first EXCEPT ![last] = <<@[1], last * tSize, @[3]>>]

EquiOffset(overlapping) == IF overlapping THEN equiOffsetOn ELSE 0

GenAt(pc) == gen # <<>> /\ gen.pc = pc
GenFrame == UNCHANGED <<fig, condaVars, commentVars, ioVars, scalarVars, arrayVars, dataVars,
                        jsonVars, defaultsVars>>

\* lines 76-98: the signal is built and the empty object is made
Signal ==
    /\ GenAt("signal")
    /\ gen' = [gen EXCEPT !.pc = IF gen.inmemory THEN "tile" ELSE "create"]
    /\ UNCHANGED handles /\ GenFrame

\* lines 99-106
Tile ==
    /\ GenAt("tile")
    /\ gen' = [gen EXCEPT !.pc = "trialdef"]
    /\ UNCHANGED handles /\ GenFrame

\* lines 108-112: the container is opened for writing
OpenContainer ==
    /\ GenAt("create")
    /\ handles' = Acquire(handles, "h5w")
    /\ gen' = [gen EXCEPT !.pc = "fill", !.iTrial = 0]
    /\ GenFrame

\* lines 113-117: one trial is written
WriteTrial ==
    /\ GenAt("fill") /\ gen.iTrial < gen.nTrials
    /\ gen' = [gen EXCEPT !.iTrial = @ + 1]
    /\ UNCHANGED handles /\ GenFrame

\* a write fails: the exception leaves the with-block of line 108
WriteTrialFails ==
    /\ GenAt("fill") /\ gen.iTrial < gen.nTrials
    /\ handles' = ExitScope(handles, "h5w")
    /\ gen' = [gen EXCEPT !.pc = "raised"]
    /\ GenFrame

\* the end of the with-block of line 108
CloseContainer ==
    /\ GenAt("fill") /\ gen.iTrial = gen.nTrials
    /\ handles' = ExitScope(handles, "h5w")
    /\ gen' = [gen EXCEPT !.pc = "reopen"]
    /\ GenFrame

\* line 118: out.data = h5py.File(out.filename, "r+")["data"]
Reopen ==
    /\ GenAt("reopen")
    /\ handles' = handles \cup {"h5r"}
    /\ gen' = [gen EXCEPT !.pc = "trialdef"]
    /\ GenFrame

\* lines 121-133
Offsets ==
    /\ GenAt("trialdef")
    /\ \E offsets \in [1..gen.nTrials -> IF gen.equidistant THEN {EquiOffset(gen.overlapping)}
                                          ELSE RandomOffsets] :
          gen' = [gen EXCEPT !.pc = "rows", !.iTrial = 0, !.offsets = offsets,
                             !.trialdefinition = [k \in 1..gen.nTrials |-> <<0, 0, 0>>]]
    /\ UNCHANGED handles /\ GenFrame

\* lines 134-137
Row ==
    /\ GenAt("rows") /\ gen.iTrial < gen.nTrials
    /\ gen' = [gen EXCEPT !.iTrial = @ + 1,
                          !.trialdefinition[gen.iTrial + 1] =
                              TrialRow(gen.iTrial, gen.offsets[gen.iTrial + 1],
                                       Shift(gen.overlapping))]
    /\ UNCHANGED handles /\ GenFrame

\* lines 138-143
AdjustEnds ==
    /\ GenAt("rows") /\ gen.iTrial = gen.nTrials
    /\ gen' = [gen EXCEPT !.pc = "define",
                          !.trialdefinition =
                              Adjust(@, gen.equidistant, EquiOffset(gen.overlapping))]
    /\ UNCHANGED handles /\ GenFrame

\* lines 144-146
DefineTrial ==
    /\ GenAt("define")
    /\ gen' = [gen EXCEPT !.pc = "returned"]
    /\ UNCHANGED handles /\ GenFrame

GenInputs ==
    [nTrials : 1..MaxTrials, equidistant : BOOLEAN, overlapping : BOOLEAN, inmemory : BOOLEAN,
     pc : {"signal"}, iTrial : {0}, offsets : {<<>>}, trialdefinition : {<<>>}]

InitGen ==
    /\ gen \in GenInputs /\ fig = <<>> /\ handles = {}
    /\ IdleConda /\ IdleComments /\ IdleIo /\ IdleScalar /\ IdleArray
    /\ IdleData /\ IdleJson /\ IdleDefaults

\* figs_equal, lines 155-200
FigAt(pc) == fig # <<>> /\ fig.pc = pc
FigFrame == UNCHANGED <<gen, condaVars, commentVars, ioVars, scalarVars, arrayVars, dataVars,
                        jsonVars, defaultsVars>>

\* line 194
OpenImg1 ==
    /\ FigAt("call")
    /\ handles' = Acquire(handles, "img1")
    /\ fig' = [fig EXCEPT !.pc = "img1"]
    /\ FigFrame

\* line 195
OpenImg2 ==
    /\ FigAt("img1")
    /\ handles' = Acquire(handles, "img2")
    /\ fig' = [fig EXCEPT !.pc = "img2"]
    /\ FigFrame

\* line 195 fails: the exception leaves the with-block of line 194
OpenImg2Fails ==
    /\ FigAt("img1")
    /\ handles' = ExitScope(handles, "img1")
    /\ fig' = [fig EXCEPT !.pc = "raised"]
    /\ FigFrame

\* lines 196-197
SaveFigs ==
    /\ FigAt("img2")
    /\ fig' = [fig EXCEPT !.pc = "saved"]
    /\ UNCHANGED handles /\ FigFrame

\* savefig fails: the exception leaves both with-blocks
SaveFigsFails ==
    /\ FigAt("img2")
    /\ handles' = ExitScope(ExitScope(handles, "img2"), "img1")
    /\ fig' = [fig EXCEPT !.pc = "raised"]
    /\ FigFrame

\* lines 198-200: the return statement leaves both with-blocks
Compare ==
    /\ FigAt("saved")
    /\ handles' = ExitScope(ExitScope(handles, "img2"), "img1")
    /\ fig' = [fig EXCEPT !.pc = "returned",
                          !.value = IF fig.tol = <<>> THEN "array_equal" ELSE "allclose"]
    /\ FigFrame

FigInputs == [tol : {<<>>, <<1>>}, pc : {"call"}, value : {""}]

InitFig ==
    /\ fig \in FigInputs /\ gen = <<>> /\ handles = {}
    /\ IdleConda /\ IdleComments /\ IdleIo /\ IdleScalar /\ IdleArray
    /\ IdleData /\ IdleJson /\ IdleDefaults

InitTests == InitGen \/ InitFig

NextTests ==
    \/ Signal \/ Tile \/ OpenContainer \/ WriteTrial \/ WriteTrialFails \/ CloseContainer
    \/ Reopen \/ Offsets \/ Row \/ AdjustEnds \/ DefineTrial
    \/ OpenImg1 \/ OpenImg2 \/ OpenImg2Fails \/ SaveFigs \/ SaveFigsFails \/ Compare

SpecTests == InitTests /\ [][NextTests]_vars

(***************************************************************************)
(* Properties of conda2pip and _process_comments                           *)
(***************************************************************************)
\* the lines of the two lists as they stand in a file, under the header
FileText(clock, list) == Msg(clock) \o Join(<<"\n">>, list)

VersionSpecs == {"=3.8"}
IsPythonPin(s) == Len(s) >= 1 /\ s[1] = "python" /\ (Len(s) = 1 \/ s[2] \in VersionSpecs)

\* the pip name of a conda entry
PipName(s) == IF StartsWith(s, condaPkg) THEN Replace(s, condaPkg, pipPkg) ELSE s

Count(list, x) == Cardinality({i \in 1..Len(list) : list[i] = x})

\* C2: the lists required and testing returned by conda2pip partition the
\* entries of the dependencies section (conda names converted to pip names):
\* every entry is in exactly one list exactly once, except that the pin of the
\* Python interpreter may be left out.
C2_Partition ==
    ret.status = "returned" =>
        LET entries == Entries(yml)
            wanted == [i \in 1..Len(entries) |-> PipName(entries[i])]
            got == ret.required \o ret.testing
        IN /\ \A i \in 1..Len(got) : Count(wanted, got[i]) > 0
           /\ \A i \in 1..Len(wanted) :
                 IF IsPythonPin(wanted[i])
                 THEN Count(got, wanted[i]) <= Count(wanted, wanted[i])
                 ELSE Count(got, wanted[i]) = Count(wanted, wanted[i])

\* a comment line that holds one of the keywords, in any letter case
KeywordLine(l) ==
    l.t = "cmt" /\ \E j \in 1..Len(commentKeys) : Contains(Lower(l.s), commentKeys[j])

\* the packages of lines at the positions that satisfy test(_), in order
PkgsWhere(lines, test(_)) ==
    LET at == SelectSeq([k \in 1..Len(lines) |-> k],
                        LAMBDA k : lines[k].t = "pkg" /\ test(k))
    IN [i \in 1..Len(at) |-> PipName(lines[at[i]].s)]

BelowKeyword(lines, k) == \E j \in 1..(k - 1) : KeywordLine(lines[j])

\* C3: _process_comments returns as optional every package listed below a
\* keyword comment of the sequence and as needed every package listed above
\* all keyword comments, however many keyword comments there are.
C3_KeywordSplit ==
    seqOut.status = "returned" =>
        /\ seqOut.optional = PkgsWhere(seqIn, LAMBDA k : BelowKeyword(seqIn, k))
        /\ seqOut.needed = PkgsWhere(seqIn, LAMBDA k : ~BelowKeyword(seqIn, k))

\* C4: of the required packages conda2pip removes the pin of the Python
\* interpreter and nothing else: packages whose names only begin with
\* "python" stay, and no pin is left.
C4_OnlyPythonRemoved ==
    ret.status = "returned" =>
        ret.required = SelectSeq(SplitDeps(yml).required, LAMBDA s : ~IsPythonPin(s))

(***************************************************************************)
(* Properties of io_parser                                                 *)
(***************************************************************************)
IoCalled == ioRet.status # "none"
IoTarget == AbsPath(ExpandUser(ioArgs.loc.s))
IoPresent == IoTarget \in DOMAIN fs /\ fs[IoTarget] # "absent"

\* what the exists flag asks for is enforced
ExistsEnforced ==
    /\ (ioArgs.exists /\ ~IoPresent => ioRet.status = "SPYIOError")
    /\ (~ioArgs.exists /\ IoPresent => ioRet.status = "SPYIOError")
    /\ (ioRet.status = "returned" => (ioArgs.exists <=> IoPresent))

FileExt(name) == Replace(SplitExt(name), <<".">>, <<>>)
ValidExts(ext) == {ext.items[i] : i \in 1..Len(ext.items)}

\* C6: called with isfile=True and a non-empty ext, io_parser passes the
\* extension check exactly if the extension of the file name is one of the
\* valid extensions; otherwise (no extension, or another one) it raises
\* SPYValueError.
C6_ExtensionChecked ==
    (/\ IoCalled /\ ioArgs.loc.str /\ ioArgs.isfile /\ ExtLen(ioArgs.ext) > 0
     /\ ioRet.why # "exists")
        => LET valid == FileExt(Basename(IoTarget)) \in ValidExts(ioArgs.ext)
           IN /\ valid <=> ioRet.why # "ext"
              /\ ~valid => ioRet.status = "SPYValueError"

\* C7: on success with isfile=True the pair returned is the absolute directory
\* of the file and its name without directory part: the two put together are
\* the absolute path of fs_loc.
C7_PathAndName ==
    (ioArgs.loc.str /\ ioArgs.isfile /\ ioRet.status = "returned")
        => /\ Len(ioRet.value) = 2
           /\ ioRet.value[2] = Basename(IoTarget)
           /\ ioRet.value[1] \o ioRet.value[2] = IoTarget

(***************************************************************************)
(* Properties of scalar_parser                                             *)
(***************************************************************************)
ScCalled == scRet.status # "none"
ScParts == IF scArgs.var.t = "complex" THEN {scArgs.var.re, scArgs.var.im}
           ELSE {scArgs.var.re}
\* lo <= x <= hi
Within(x, lims) == Le(lims[1], x) /\ Le(x, lims[2])
ScBoundsCase == ScCalled /\ IsNumber(scArgs.var) /\ scArgs.ntype = <<>> /\ scArgs.lims # <<>>

\* C8 as stated: with lims = [lo, hi] a scalar is accepted exactly if lo <= x
\* <= hi holds for its value (for both parts of a complex), with lims =
\* [-inf, inf] exactly the non-finite and NaN values are rejected, and every
\* rejection is an SPYValueError.
C8_BoundsInclusive ==
    ScBoundsCase =>
        /\ scRet.status = "returned" <=> \A x \in ScParts : Within(x, scArgs.lims)
        /\ scArgs.lims = <<NegInf, PosInf>> =>
              (scRet.status # "returned" <=> \E x \in ScParts : ~IsFinite(x))
        /\ scRet.status \in {"returned", "SPYValueError"}

\* C8 amended: with lims = [lo, hi] a scalar is accepted exactly if it is
\* finite (neither infinite nor NaN, in both parts of a complex) and lo <= x
\* <= hi holds for its value (for both parts of a complex); every rejection is
\* an SPYValueError.
C8_FiniteAndInBounds ==
    ScBoundsCase =>
        /\ scRet.status = "returned" <=>
              \A x \in ScParts : IsFinite(x) /\ Within(x, scArgs.lims)
        /\ scRet.status \in {"returned", "SPYValueError"}

\* C8 witness: a value equal to the upper bound has been accepted
C8_Witness ==
    /\ ScBoundsCase /\ scArgs.var.t = "float"
    /\ scArgs.lims = <<Fin(0), Fin(2)>> /\ scArgs.var.re = Fin(2)
    /\ scRet.status = "returned"

\* the fractional part of a float as modf gives it is zero: a whole finite
\* value or an infinity, but not NaN
NoFraction(x) == (x.k = "fin" /\ x.v % 2 = 0) \/ x.k = "inf"

\* C9: scalar_parser raises SPYTypeError for every var that is no number;
\* with ntype = "int_like" (and no lims) it accepts a number exactly if it has
\* no fractional part and raises SPYValueError otherwise; with ntype = None
\* (and no lims) every number is accepted.
C9_TypeChecks ==
    ScCalled =>
        /\ ~IsNumber(scArgs.var) => scRet.status = "SPYTypeError"
        /\ (IsNumber(scArgs.var) /\ scArgs.ntype = <<"int_like">> /\ scArgs.lims = <<>>) =>
              IF \A x \in ScParts : NoFraction(x)
              THEN scRet.status = "returned" ELSE scRet.status = "SPYValueError"
        /\ (IsNumber(scArgs.var) /\ scArgs.ntype = <<>> /\ scArgs.lims = <<>>) =>
              scRet.status = "returned"

\* C9 witness: a float with a fractional part has been refused as int_like
C9_Witness ==
    /\ scArgs.var = Scalar("float", Fin(1), Fin(0)) /\ scArgs.ntype = <<"int_like">>
    /\ scArgs.lims = <<>> /\ scRet.status = "SPYValueError"

(***************************************************************************)
(* Properties of array_parser                                              *)
(***************************************************************************)
ElemParts(dtype, e) == IF dtype = "complex" THEN {e.re, e.im} ELSE {e.re}

\* C10: with lims = [lo, hi] inf and NaN entries are ignored: for every
\* numeric array, also an empty one and one of inf/NaN entries only, the bounds
\* check passes exactly if every finite entry (both parts of it in a complex
\* array) lies in [lo, hi], and it fails only with SPYValueError.
C10_FiniteEntriesBounded ==
    (/\ arRet.status # "none" /\ arArgs.var.arraylike /\ IsNumeric(arArgs.var.dtype)
     /\ arArgs.lims # <<>> /\ arArgs.ntype = <<>>
     /\ arArgs.hasinf = <<>> /\ arArgs.hasnan = <<>> /\ arArgs.dims = <<>>)
        => LET elems == arArgs.var.elems
               ok == \A i \in 1..Len(elems) :
                        ElemFinite(elems[i]) =>
                            \A x \in ElemParts(arArgs.var.dtype, elems[i]) :
                                Within(x, arArgs.lims)
           IN /\ arRet.status = "returned" <=> ok
              /\ arRet.status \in {"returned", "SPYValueError"}

(***************************************************************************)
(* Properties of the validators together                                   *)
(***************************************************************************)
DomainErrors == {"SPYTypeError", "SPYValueError", "SPYIOError"}
ValidatorOutcomes ==
    {ioRet.status, scRet.status, arRet.status, dpRet.status, jsRet.status, gdRet.status}
\* io_parser is asked for a directory and given file-name extensions
IoConflict == ~ioArgs.isfile /\ ExtLen(ioArgs.ext) > 0

\* C11: a call of io_parser, scalar_parser, array_parser, data_parser,
\* json_parser or get_defaults ends either by returning or by raising
\* SPYTypeError, SPYValueError or SPYIOError, never in another kind of
\* exception; and io_parser does not return normally from the contradictory
\* combination isfile=False with extensions.
C11_DomainErrorsOnly ==
    /\ ValidatorOutcomes \subseteq DomainErrors \cup {"none", "returned"}
    /\ (IoCalled /\ IoConflict => ioRet.status # "returned")

\* the outcome of a call: the validator returned None or it raised
RaisedOrNone(r) ==
    /\ r.status # "none"
    /\ (r.status = "returned" /\ "value" \in DOMAIN r) => r.value = "None"

GenEnded == gen # <<>> /\ gen.pc \in {"returned", "raised"}
FigEnded == fig # <<>> /\ fig.pc \in {"returned", "raised"}

\* C13 as stated: when generate_artificial_data or figs_equal has ended, by
\* returning or by raising, no temporary file and no HDF5 file it opened is
\* open.
C13_AllReleased == GenEnded \/ FigEnded => handles = {}

\* C13, amended: the temporary files of figs_equal and the HDF5 file that
\* generate_artificial_data opens for writing are open only inside their
\* with-blocks and are closed when the function has ended, by returning or by
\* raising; the HDF5 file opened at line 118 behind out.data is the one file
\* still open when generate_artificial_data(inmemory=False) has returned.
C13_ScopedReleased ==
    /\ FigEnded => handles = {}
    /\ GenEnded => "h5w" \notin handles
    /\ "h5w" \in handles => GenAt("fill")
    /\ "img1" \in handles => fig # <<>> /\ fig.pc \in {"img1", "img2", "saved"}
    /\ "img2" \in handles => fig # <<>> /\ fig.pc \in {"img2", "saved"}
    /\ GenAt("returned") => handles = IF gen.inmemory THEN {} ELSE {"h5r"}

\* generate_artificial_data(inmemory=False) has written its trials, left the
\* with-block and returned
C13_Witness == GenAt("returned") /\ ~gen.inmemory /\ handles = {"h5r"}

\* the trial definition is complete (line 144)
TrialsBuilt == gen # <<>> /\ gen.pc \in {"define", "returned"}
Start(k) == gen.trialdefinition[k][1]
Stop(k) == gen.trialdefinition[k][2]

\* C14: every row [start, stop, offset] of the trial definition has
\* 0 <= start < stop <= nTrials * (samples per trial) and offset = 1000, for
\* every nTrials >= 1 and every combination of equidistant and overlapping.
C14_RowsWithinBounds ==
    TrialsBuilt =>
        \A k \in 1..gen.nTrials :
            /\ 0 <= Start(k) /\ Start(k) < Stop(k) /\ Stop(k) <= gen.nTrials * tSize
            /\ gen.trialdefinition[k][3] = 1000

\* C15: for nTrials >= 2, with overlapping=False the stop of every trial is
\* at most the start of the next one, with overlapping=True the stop of
\* every trial is greater than the start of the next one, and with
\* equidistant=True all trials have the same length.
C15_OverlappingDecides ==
    TrialsBuilt /\ gen.nTrials >= 2 =>
        /\ ~gen.overlapping => \A k \in 1..(gen.nTrials - 1) : Stop(k) <= Start(k + 1)
        /\ gen.overlapping => \A k \in 1..(gen.nTrials - 1) : Stop(k) > Start(k + 1)
        /\ gen.equidistant =>
               \A j, k \in 1..gen.nTrials : Stop(j) - Start(j) = Stop(k) - Start(k)

\* three overlapping equidistant trials have been built
C15_Witness ==
    /\ TrialsBuilt /\ gen.nTrials = 3 /\ gen.overlapping /\ gen.equidistant
    /\ Stop(1) > Start(2) /\ Stop(2) > Start(3)

====
